---- MODULE Spec2Model ----
(***************************************************************************)
(* The Open Library dump pipeline (openlibrary/data/dump.py): the text     *)
(* codec, print_dump / generate_cdump, sort_dump, generate_dump,           *)
(* split_dump and the command-line dispatch.  Every component has its own  *)
(* specification; the variables of the other components stay idle.         *)
(*                                                                         *)
(* Python str / bytes values are TLA+ strings; Chr, startswith, StrLess    *)
(* and replace compute on them character by character.                     *)
(***************************************************************************)
EXTENDS Integers, Sequences, FiniteSets, TLC

VARIABLES
    \* text codec
    text,        \* the text given to pgencode
    encoded,     \* pgencode's result
    decoded,     \* pgdecode's result on it
    cpc,         \* position: start, encoded, decoded
    \* print_dump / generate_cdump
    filter,      \* print_dump's filter argument
    idx,         \* the loop index i: number of records read
    json_data,   \* the record read last, as json.loads returns it
    stdout,      \* the lines printed
    ppc,         \* what the loop body did with the record read last
    \* sort_dump
    dump_lines,  \* the lines of the dump to sort
    lineno,      \* how many of them have been read
    hash,        \* this process's hash() on the keys
    files,       \* what has been written to each bucket file
    closed,      \* whether the bucket files have been flushed and closed
    fname,       \* index of the next bucket file to sort
    sorted,      \* the output of the sort commands so far
    status,      \* exit status of the last sort command
    sort_log,    \* the sort commands run so far: <<bucket index, exit status>>
    error,       \* the exception sort_dump raised, if any
    spc,         \* position: split, sort, done, raised
    \* generate_dump
    cdump,       \* the rows generate_dump reads
    dump,        \* the rows it writes
    gpc,         \* position: idle, start, done
    \* split_dump
    split_lines, \* the lines of the dump to split
    split_n,     \* how many of them have been read
    split_files, \* what has been written to each type's file
    split_error, \* the exception split_dump raised, if any
    tpc,         \* position: loop, closed, raised
    \* main
    cmd,         \* the command name
    argv,        \* the command-line arguments main was given
    iargs,       \* those not yet consumed
    args,        \* positional arguments collected
    kwargs,      \* keyword arguments collected: <<name, value>> pairs
    invoked,     \* the component main called, if any
    stderr,      \* what main printed on sys.stderr
    main_error,  \* the exception main raised, if any
    mpc          \* position: parse, called, returned, raised

codecVars == <<text, encoded, decoded, cpc>>
printVars == <<filter, idx, json_data, stdout, ppc>>
sortVars == <<dump_lines, lineno, hash, files, closed, fname, sorted, status, sort_log, error, spc>>
dumpVars == <<cdump, dump, gpc>>
splitVars == <<split_lines, split_n, split_files, split_error, tpc>>
mainVars == <<cmd, argv, iargs, args, kwargs, invoked, stderr, main_error, mpc>>
vars == <<codecVars, printVars, sortVars, dumpVars, splitVars, mainVars>>

(***************************************************************************)
(* Strings.                                                                *)
(***************************************************************************)

\* Python's None (an absent text); no string of the model's alphabets equals it.
None == "<None>"

\* The characters the model's strings use, in increasing code-point order.
CodePoints == "\t\n\r -/0123456789:ABCDEFGHIJKLMNOPQRSTUVWXYZ\\_abcdefghijklmnopqrstuvwxyz"

Chr(s, i) == SubSeq(s, i, i)

\* Rank of a character in code-point order (Python compares str by code point).
Ord(c) == CHOOSE i \in 1..Len(CodePoints) : Chr(CodePoints, i) = c

\* str.startswith(prefix)
startswith(s, p) == Len(s) >= Len(p) /\ SubSeq(s, 1, Len(p)) = p

\* str.startswith((p1, p2, ...))
startswithAny(s, ps) == \E p \in ps : startswith(s, p)

RECURSIVE StrLessFrom(_, _, _)
StrLessFrom(a, b, i) ==
    IF i > Len(b) THEN FALSE
    ELSE IF i > Len(a) THEN TRUE
    ELSE IF Chr(a, i) # Chr(b, i) THEN Ord(Chr(a, i)) < Ord(Chr(b, i))
    ELSE StrLessFrom(a, b, i + 1)

\* a < b on Python strings (and memcmp order on bytes)
StrLess(a, b) == StrLessFrom(a, b, 1)

RECURSIVE replace(_, _, _)
\* str.replace(old, new) for a one-character old: every occurrence
replace(s, old, new) ==
    IF s = "" THEN ""
    ELSE (IF Chr(s, 1) = old THEN new ELSE Chr(s, 1)) \o replace(SubSeq(s, 2, Len(s)), old, new)

Min(S) == CHOOSE x \in S : \A y \in S : x <= y

(***************************************************************************)
(* A component that is not running.                                        *)
(***************************************************************************)

CodecIdle == text = None /\ encoded = None /\ decoded = None /\ cpc = "idle"

PrintIdle == filter = None /\ idx = 0 /\ json_data = None /\ stdout = <<>> /\ ppc = "idle"

SortIdle ==
    /\ dump_lines = <<>> /\ lineno = 0 /\ hash = <<>> /\ files = <<>> /\ closed = FALSE
    /\ fname = 0 /\ sorted = <<>> /\ status = 0 /\ sort_log = <<>> /\ error = None
    /\ spc = "idle"

DumpIdle == cdump = <<>> /\ dump = <<>> /\ gpc = "idle"

SplitIdle ==
    /\ split_lines = <<>> /\ split_n = 0 /\ split_files = <<>> /\ split_error = None
    /\ tpc = "idle"

MainIdle ==
    /\ cmd = None /\ argv = <<>> /\ iargs = <<>> /\ args = <<>> /\ kwargs = {}
    /\ invoked = None /\ stderr = <<>> /\ main_error = None /\ mpc = "idle"

(***************************************************************************)
(* Text codec: _make_sub, pgencode, pgdecode.                              *)
(***************************************************************************)

\* A dict is the sequence of its (key, value) pairs in insertion order.
_pgencode_dict == << <<"\n", "\\n">>, <<"\r", "\\r">>, <<"\t", "\\t">>, <<"\\", "\\\\">> >>

_invert_dict(d) == [i \in DOMAIN d |-> <<d[i][2], d[i][1]>>]

RECURSIVE RxSub(_, _, _)
\* rx.sub(f, s) from position i: at each position the alternation tries the
\* dict's keys in order; a match is replaced by its value and scanning goes
\* on after it, an unmatched character is copied.
RxSub(d, s, i) ==
    IF i > Len(s) THEN ""
    ELSE LET m == {k \in DOMAIN d : startswith(SubSeq(s, i, Len(s)), d[k][1])}
         IN  IF m = {} THEN Chr(s, i) \o RxSub(d, s, i + 1)
             ELSE d[Min(m)][2] \o RxSub(d, s, i + Len(d[Min(m)][1]))

\* lambda s: s and rx.sub(f, s)
_make_sub(d, s) == IF s = None \/ s = "" THEN s ELSE RxSub(d, s, 1)

_pgencode(s) == _make_sub(_pgencode_dict, s)

_pgdecode(s) == _make_sub(_invert_dict(_pgencode_dict), s)

\* pgencode returns _pgdecode(text)
pgencode(s) == _pgdecode(s)

pgdecode(s) == _pgdecode(s)

\* Bound: longest text given to the codec.
MaxText == 3

CodecChars == {"\n", "\r", "\t", "\\", "n", "t", "a"}

RECURSIVE TextsOfLen(_)
TextsOfLen(n) == IF n = 0 THEN {""} ELSE {c \o s : c \in CodecChars, s \in TextsOfLen(n - 1)}

Texts == {None} \cup UNION {TextsOfLen(n) : n \in 0..MaxText}

CodecInit ==
    /\ text \in Texts /\ encoded = None /\ decoded = None /\ cpc = "start"
    /\ PrintIdle /\ SortIdle /\ DumpIdle /\ SplitIdle /\ MainIdle

Encode ==
    /\ cpc = "start"
    /\ encoded' = pgencode(text)
    /\ cpc' = "encoded"
    /\ UNCHANGED <<text, decoded>>
    /\ UNCHANGED <<printVars, sortVars, dumpVars, splitVars, mainVars>>

Decode ==
    /\ cpc = "encoded"
    /\ decoded' = pgdecode(encoded)
    /\ cpc' = "decoded"
    /\ UNCHANGED <<text, encoded>>
    /\ UNCHANGED <<printVars, sortVars, dumpVars, splitVars, mainVars>>

CodecNext == Encode \/ Decode

SpecCodec == CodecInit /\ [][CodecNext]_vars

\* C4: pgdecode(pgencode(s)) = s for every text s, pgencode writes each of
\* newline, carriage return, tab and backslash as its two-character escape,
\* and an empty or absent text comes back unchanged.
C4_RoundTrip ==
    /\ cpc = "decoded" => decoded = text
    /\ cpc # "start" => encoded = _pgencode(text)
    /\ (cpc # "start" /\ (text = None \/ text = "")) => encoded = text

(***************************************************************************)
(* print_dump, generate_cdump: key normalization and the filters.          *)
(***************************************************************************)

\* web.group(mapping, 2): the (old, new) prefix pairs, in order
mapping == << <<"/l/", "/languages/">>, <<"/a/", "/authors/">>,
              <<"/b/", "/books/">>, <<"/user/", "/people/">> >>

\* The first pair whose old prefix the key starts with rewrites it.
_process_key(k) ==
    LET m == {j \in DOMAIN mapping : startswith(k, mapping[j][1])}
    IN  IF m = {} THEN k
        ELSE mapping[Min(m)][2] \o SubSeq(k, Len(mapping[Min(m)][1]) + 1, Len(k))

\* _process_data on a dict that has 'type' and 'value' (last_modified):
\* a datetime-tagged value gets every space turned into T.
ProcessValue(v) ==
    IF v.type = "/type/datetime" THEN [v EXCEPT !.value = replace(v.value, " ", "T")] ELSE v

\* _process_data on a record {key, type: {key}, last_modified: {type, value},
\* revision}: the record's key and the key of its type dict are rewritten,
\* the dicts below it are processed in turn, scalars are returned as they are.
_process_data(d) ==
    [key |-> _process_key(d.key),
     type |-> [key |-> _process_key(d.type.key)],
     last_modified |-> ProcessValue(d.last_modified),
     revision |-> d.revision]

\* Mutant of SkipInternal: only admin pages are skipped.
SkipInternalAdminOnly(k) == startswith(k, "/admin/")

\* "skip user and admin pages"
SkipInternal(k) == startswithAny(k, {"/people/", "/admin/"})

\* Mutant of SkipObsolete: the /old/ prefix is forgotten.
SkipObsoleteWithoutOld(k) == startswithAny(k, {"/b/", "/scan"}) \/ ~startswith(k, "/")

\* "skip obsolete pages"
SkipObsolete(k) == startswithAny(k, {"/b/", "/scan", "/old/"}) \/ ~startswith(k, "/")

\* print_dump's filter argument: absent, a predicate with a fixed answer, or
\* generate_cdump's lambda for a date.
NoFilter == [kind |-> "None", date |-> None, answer |-> None]

Predicate(answer) == [kind |-> "predicate", date |-> None, answer |-> answer]

\* Mutant of CutoffLambda: the timestamp is compared with the bare date.
CutoffLambdaBareDate(date) == [kind |-> "cutoff", date |-> date, answer |-> None]

\* lambda doc: doc['last_modified']['value'] < date + "Z"
CutoffLambda(date) == [kind |-> "cutoff", date |-> date \o "Z", answer |-> None]

\* filter = date and (lambda ...): an absent or empty date gives no filter
CdumpFilter(date) == IF date = None \/ date = "" THEN NoFilter ELSE CutoffLambda(date)

\* filter(d)
FilterAnswer(f, d) ==
    IF f.kind = "cutoff" THEN (IF StrLess(d.last_modified.value, f.date) THEN "True" ELSE "False")
    ELSE f.answer

\* filter and filter(d) is False
Vetoed(f, d) == f.kind # "None" /\ FilterAnswer(f, d) = "False"

\* The five columns of the printed line; the line is their join with tabs.
DumpLine(d) ==
    [type |-> d.type.key, key |-> d.key, revision |-> d.revision,
     timestamp |-> d.last_modified.value, json |-> d]

RawKeys ==
    {"/people/foo", "/user/foo", "/admin/x", "/b/OL1M", "/books/OL1M", "/scan_record/1",
     "/old/x", "works/OL1W", "/a/OL1A", "/l/eng", "/works/OL1W"}

Timestamps ==
    {"2020-05-16 23:59:59", "2020-05-17 00:00:00", "2020-05-17 10:00:00", "2020-05-18 00:00:00"}

\* The cutoff dates generate_cdump is called with.
Dates == {None, "", "2020-05-17"}

\* What a caller's predicate may answer.
Answers == {"True", "False", "None"}

RawRecords ==
    {[key |-> k, type |-> [key |-> "/type/edition"],
      last_modified |-> [type |-> "/type/datetime", value |-> t], revision |-> 1] :
        k \in RawKeys, t \in Timestamps}

\* Bound: records read by one print_dump run.
MaxRecords == 2

PrintInit ==
    /\ filter \in {CdumpFilter(date) : date \in Dates} \cup {Predicate(a) : a \in Answers}
    /\ idx = 0 /\ json_data = None /\ stdout = <<>> /\ ppc = "start"
    /\ CodecIdle /\ SortIdle /\ DumpIdle /\ SplitIdle /\ MainIdle

\* One iteration of print_dump's loop on the record rec.
PrintRecord(rec) ==
    /\ ppc # "idle"
    /\ idx < MaxRecords
    /\ LET d == _process_data(rec)
           k == d.key
       IN  /\ json_data' = rec
           /\ idx' = idx + 1
           /\ IF SkipInternal(k) THEN ppc' = "internal" /\ stdout' = stdout
              ELSE IF SkipObsolete(k) THEN ppc' = "obsolete" /\ stdout' = stdout
              ELSE IF Vetoed(filter, d) THEN ppc' = "vetoed" /\ stdout' = stdout
              ELSE ppc' = "printed" /\ stdout' = Append(stdout, DumpLine(d))
    /\ UNCHANGED filter
    /\ UNCHANGED <<codecVars, sortVars, dumpVars, splitVars, mainVars>>

PrintNext == \E rec \in RawRecords : PrintRecord(rec)

SpecPrint == PrintInit /\ [][PrintNext]_vars

\* A record has been read (json_data is a record, ppc says what became of it).
RecordRead == ppc \in {"internal", "obsolete", "vetoed", "printed"}

\* The day of a timestamp: its YYYY-MM-DD part.
Day(ts) == SubSeq(ts, 1, 10)

\* The key a record is printed under passes both prefix filters.
PassesPrefixFilters(rec) ==
    ~SkipInternal(_process_key(rec.key)) /\ ~SkipObsolete(_process_key(rec.key))

\* C5 as claimed: with a cutoff date D, a record of day D is never printed,
\* and a record of an earlier day that passes the prefix filters is printed.
C5_CutoffExclusive ==
    \A D \in Dates \ {None, ""} :
        (filter = CdumpFilter(D) /\ RecordRead) =>
            /\ Day(json_data.last_modified.value) = D => ppc # "printed"
            /\ (StrLess(Day(json_data.last_modified.value), D) /\ PassesPrefixFilters(json_data))
                   => ppc = "printed"

\* C5 amended: with a cutoff date D the boundary day is included: a record of
\* day D or of an earlier day that passes the prefix filters is printed, with
\* its timestamp in ISO form, and a record of a later day is never printed.
C5_CutoffInclusive ==
    \A D \in Dates \ {None, ""} :
        (filter = CdumpFilter(D) /\ RecordRead) =>
            LET day == Day(json_data.last_modified.value)
            IN  /\ ((day = D \/ StrLess(day, D)) /\ PassesPrefixFilters(json_data))
                       => /\ ppc = "printed"
                          /\ stdout[Len(stdout)].timestamp
                                 = replace(json_data.last_modified.value, " ", "T")
                /\ StrLess(D, day) => ppc # "printed"

\* A record of the cutoff day itself has been printed.
C5_Witness ==
    /\ filter.kind = "cutoff" /\ ppc = "printed"
    /\ Day(json_data.last_modified.value) = "2020-05-17"
    /\ filter.date = "2020-05-17Z"

\* C6: no printed line has a key beginning with /people/ or /admin/, whatever
\* the filter argument; a record stored under /user/ is never printed.
C6_NoInternalPages ==
    /\ \A j \in DOMAIN stdout : ~startswithAny(stdout[j].key, {"/people/", "/admin/"})
    /\ (RecordRead /\ startswith(json_data.key, "/user/")) => ppc = "internal"

\* A record stored under /user/ was read, and dropped as an internal page,
\* under a predicate that accepts every record.
C6_Witness ==
    /\ ppc = "internal" /\ startswith(json_data.key, "/user/") /\ filter = Predicate("True")

\* C7 as claimed: a record whose key, as read, begins with /b/, /scan or
\* /old/, or does not begin with /, is not printed.
C7_ObsoleteByInputKey ==
    (RecordRead /\ (startswithAny(json_data.key, {"/b/", "/scan", "/old/"})
                       \/ ~startswith(json_data.key, "/")))
        => ppc # "printed"

\* C7 amended: a record whose key, as read, begins with /scan or /old/, or
\* does not begin with /, is not printed; a record whose key as read begins
\* with /b/ is rewritten to /books/ and is printed unless the filter argument
\* vetoes it.
C7_ObsoleteAfterNormalization ==
    /\ (RecordRead /\ (startswithAny(json_data.key, {"/scan", "/old/"})
                          \/ ~startswith(json_data.key, "/")))
           => ppc = "obsolete"
    /\ (RecordRead /\ startswith(json_data.key, "/b/"))
           => /\ ppc \in {"printed", "vetoed"}
              /\ ppc = "printed" =>
                     stdout[Len(stdout)].key = "/books/" \o SubSeq(json_data.key, 4, Len(json_data.key))
              /\ ppc = "vetoed" => filter.kind # "None"

\* A record stored under /old/ was read and dropped as obsolete, under a
\* predicate that accepts every record.
C7_Witness ==
    /\ ppc = "obsolete" /\ startswith(json_data.key, "/old/") /\ filter = Predicate("True")

(***************************************************************************)
(* Lines of a dump: type, key, revision, timestamp and JSON joined by      *)
(* tabs, ended by a newline.                                               *)
(***************************************************************************)

Whitespace == {" ", "\t", "\n", "\r"}

RECURSIVE lstrip(_)
lstrip(s) == IF s # "" /\ Chr(s, 1) \in Whitespace THEN lstrip(SubSeq(s, 2, Len(s))) ELSE s

RECURSIVE rstrip(_)
rstrip(s) ==
    IF s # "" /\ Chr(s, Len(s)) \in Whitespace THEN rstrip(SubSeq(s, 1, Len(s) - 1)) ELSE s

\* str.strip()
strip(s) == rstrip(lstrip(s))

RECURSIVE SplitFrom(_, _, _, _)
\* the pieces of s from position j on, cut at every sep; from is where the
\* current piece began
SplitFrom(s, sep, from, j) ==
    IF j > Len(s) THEN <<SubSeq(s, from, Len(s))>>
    ELSE IF Chr(s, j) = sep THEN <<SubSeq(s, from, j - 1)>> \o SplitFrom(s, sep, j + 1, j + 1)
    ELSE SplitFrom(s, sep, from, j + 1)

\* str.split(sep) for a one-character sep
split(s, sep) == SplitFrom(s, sep, 1, 1)

RECURSIVE tjoin(_)
\* "\t".join(cols)
tjoin(cols) ==
    IF Len(cols) = 0 THEN ""
    ELSE IF Len(cols) = 1 THEN cols[1]
    ELSE cols[1] \o "\t" \o tjoin(Tail(cols))

Digits == "0123456789"

RECURSIVE IntFrom(_, _, _)
IntFrom(s, j, acc) ==
    IF j > Len(s) THEN acc
    ELSE IntFrom(s, j + 1, 10 * acc + (CHOOSE v \in 0..9 : Chr(Digits, v + 1) = Chr(s, j)))

\* int(s) for a string of decimal digits
int(s) == IntFrom(s, 1, 0)

DumpKeys == {"/a/1", "/a/10"}

DumpRevisions == {"9", "10"}

\* The well-formed lines of the dumps given to sort_dump and generate_dump.
DumpRows ==
    {tjoin(<<"/type/author", k, r, "2020-05-17T10:00:00", "{}">>) \o "\n" :
        k \in DumpKeys, r \in DumpRevisions}

\* A line with four columns.
ShortLine == "/type/author\t/a/1\t9\t{}\n"

RECURSIVE SeqsOfLen(_, _)
SeqsOfLen(S, n) ==
    IF n = 0 THEN {<<>>} ELSE {<<x>> \o q : x \in S, q \in SeqsOfLen(S, n - 1)}

SeqsUpTo(S, n) == UNION {SeqsOfLen(S, m) : m \in 0..n}

(***************************************************************************)
(* sort_dump.                                                              *)
(***************************************************************************)

\* range(256): the bucket files
NumFiles == 256

\* Values hash() may give a key in one process: the hash of bytes is salted
\* per process and may be negative.
HashValues == {-2, 3, 259}

\* Exit statuses os.system may return for a sort command.
ExitStatuses == {0, 512}

\* Mutant of findex: the modulus is off by one.
findexMod255(k) == hash[k] % 255

\* findex = hash(key) % 256
findex(k) == hash[k] % NumFiles

\* sort's fields: without -t, a field starts at each blank that follows a
\* non-blank character and holds its leading blanks.
Blank == {" ", "\t"}

RECURSIVE FieldsFrom(_, _, _)
FieldsFrom(s, from, j) ==
    IF j > Len(s) THEN <<SubSeq(s, from, Len(s))>>
    ELSE IF j > 1 /\ Chr(s, j) \in Blank /\ Chr(s, j - 1) \notin Blank
         THEN <<SubSeq(s, from, j - 1)>> \o FieldsFrom(s, j, j + 1)
    ELSE FieldsFrom(s, from, j + 1)

RECURSIVE Concat(_)
Concat(ss) == IF Len(ss) = 0 THEN "" ELSE Head(ss) \o Concat(Tail(ss))

\* -k2,3: from the start of field 2 to the end of field 3 of the line
\* without its newline
SortKey(line) ==
    LET f == FieldsFrom(SubSeq(line, 1, Len(line) - 1), 1, 1)
    IN  Concat(SubSeq(f, 2, IF Len(f) < 3 THEN Len(f) ELSE 3))

\* sort's order: the keys compared as bytes, then the whole lines
LineBefore(a, b) ==
    IF SortKey(a) # SortKey(b) THEN StrLess(SortKey(a), SortKey(b)) ELSE StrLess(a, b)

RECURSIVE Insert(_, _)
Insert(q, x) ==
    IF q = <<>> THEN <<x>>
    ELSE IF LineBefore(x, Head(q)) THEN <<x>> \o q
    ELSE <<Head(q)>> \o Insert(Tail(q), x)

RECURSIVE SortLines(_)
\* the output of "gzip -cd fname | sort -k2,3" on a bucket file
SortLines(q) == IF q = <<>> THEN <<>> ELSE Insert(SortLines(Tail(q)), Head(q))

\* Mutant of AfterSort: the exit status is not looked at.
AfterSortIgnoringStatus(st, f) == IF f + 1 = NumFiles THEN "done" ELSE "sort"

\* Where sort_dump goes after the sort of bucket f returned st.
AfterSort(st, f) ==
    IF st # 0 THEN "raised" ELSE IF f + 1 = NumFiles THEN "done" ELSE "sort"

\* Bound: lines of the dump given to sort_dump.
MaxLines == 2

SortInit ==
    /\ dump_lines \in SeqsUpTo(DumpRows \cup {ShortLine}, MaxLines)
    /\ hash \in [DumpKeys -> HashValues]
    /\ lineno = 0
    /\ files = [f \in 0..(NumFiles - 1) |-> <<>>]
    /\ closed = FALSE /\ fname = 0 /\ sorted = <<>> /\ status = 0
    /\ sort_log = <<>> /\ error = None /\ spc = "split"
    /\ CodecIdle /\ PrintIdle /\ DumpIdle /\ SplitIdle /\ MainIdle

\* One iteration of the splitting loop.
SplitLine ==
    /\ spc = "split" /\ lineno < Len(dump_lines)
    /\ LET line == dump_lines[lineno + 1]
           cols == split(strip(line), "\t")
       IN  /\ lineno' = lineno + 1
           /\ IF Len(cols) # 5
              THEN /\ spc' = "raised" /\ error' = "ValueError"
                   /\ UNCHANGED files
              ELSE /\ files' = [files EXCEPT ![findex(cols[2])] = Append(@, line)]
                   /\ UNCHANGED <<spc, error>>
    /\ UNCHANGED <<dump_lines, hash, closed, fname, sorted, status, sort_log>>
    /\ UNCHANGED <<codecVars, printVars, dumpVars, splitVars, mainVars>>

\* for f in files: f.flush(); f.close()
CloseFiles ==
    /\ spc = "split" /\ lineno = Len(dump_lines)
    /\ closed' = TRUE
    /\ spc' = "sort"
    /\ UNCHANGED <<dump_lines, lineno, hash, files, fname, sorted, status, sort_log, error>>
    /\ UNCHANGED <<codecVars, printVars, dumpVars, splitVars, mainVars>>

\* What a sort command that exits with status st may have written: all of
\* the sorted bucket when st is 0, some beginning of it otherwise.
SortOutputs(st, f) ==
    LET all == SortLines(files[f])
    IN  IF st = 0 THEN {all} ELSE {SubSeq(all, 1, n) : n \in 0..Len(all)}

\* One iteration of the sorting loop: the command exits with status st.
SortFile(st) ==
    /\ spc = "sort" /\ fname < NumFiles
    /\ \E out \in SortOutputs(st, fname) : sorted' = sorted \o out
    /\ status' = st
    /\ sort_log' = Append(sort_log, <<fname, st>>)
    /\ spc' = AfterSort(st, fname)
    /\ IF st # 0
       THEN error' = <<"sort failed with status", st>> /\ UNCHANGED fname
       ELSE fname' = fname + 1 /\ UNCHANGED error
    /\ UNCHANGED <<dump_lines, lineno, hash, files, closed>>
    /\ UNCHANGED <<codecVars, printVars, dumpVars, splitVars, mainVars>>

SortNext ==
    \/ SplitLine
    \/ CloseFiles
    \/ \E st \in ExitStatuses : SortFile(st)

SpecSort == SortInit /\ [][SortNext]_vars

\* The columns of a well-formed line.
Cols(line) == split(strip(line), "\t")

KeyOf(line) == Cols(line)[2]

RevisionOf(line) == int(Cols(line)[3])

Count(q, x) == Cardinality({j \in DOMAIN q : q[j] = x})

\* The places <<f, j>> of the lines in the bucket files.
Places == UNION {{<<f, j>> : j \in DOMAIN files[f]} : f \in DOMAIN files}

\* The (key, revision) pair of a line.
PairOf(line) == <<KeyOf(line), RevisionOf(line)>>

\* C2: when the partition phase ends (every input line has been read, the
\* bucket files are closed, no sort has run yet), every line is in the
\* bucket file with index hash(key) mod 256 and in no other, the (key,
\* revision) pairs of the bucket files are those of the input, each as often
\* as there, and rows with the same key share a bucket.
C2_Partition ==
    (closed /\ sort_log = <<>>) =>
        /\ lineno = Len(dump_lines)
        /\ \A pl \in Places :
               /\ pl[1] = hash[KeyOf(files[pl[1]][pl[2]])] % 256
               /\ \E m \in DOMAIN dump_lines : dump_lines[m] = files[pl[1]][pl[2]]
        /\ Cardinality(Places) = Len(dump_lines)
        /\ \A m \in DOMAIN dump_lines :
               Cardinality({pl \in Places : files[pl[1]][pl[2]] = dump_lines[m]})
                   = Count(dump_lines, dump_lines[m])
        /\ \A m \in DOMAIN dump_lines :
               Cardinality({pl \in Places : PairOf(files[pl[1]][pl[2]]) = PairOf(dump_lines[m])})
                   = Cardinality({k \in DOMAIN dump_lines :
                                     PairOf(dump_lines[k]) = PairOf(dump_lines[m])})
        /\ \A pl, pm \in Places :
               KeyOf(files[pl[1]][pl[2]]) = KeyOf(files[pm[1]][pm[2]]) => pl[1] = pm[1]

\* The partition phase is over and one bucket file holds the rows of two
\* keys whose hash values differ.
C2_Witness ==
    /\ closed /\ sort_log = <<>>
    /\ Len(files[3]) = 2
    /\ hash[KeyOf(files[3][1])] # hash[KeyOf(files[3][2])]

\* All rows sharing a key are next to each other in the stream q.
KeyGrouped(q) ==
    \A a, b, c \in DOMAIN q :
        (a < b /\ b < c /\ KeyOf(q[a]) = KeyOf(q[c])) => KeyOf(q[b]) = KeyOf(q[a])

(***************************************************************************)
(* generate_dump.                                                          *)
(***************************************************************************)

\* read_tsv(file, strip=False): the columns of every line, the newline kept
read_tsv(lines) == [j \in DOMAIN lines |-> split(lines[j], "\t")]

\* revision = lambda cols: int(cols[2])
revision(cols) == int(cols[3])

RECURSIVE GroupEnd(_, _)
\* itertools.groupby: the group that starts at row a runs on while the key
\* column stays the same
GroupEnd(data, a) ==
    IF a < Len(data) /\ data[a + 1][2] = data[a][2] THEN GroupEnd(data, a + 1) ELSE a

RECURSIVE MaxFrom(_, _, _)
MaxFrom(rows, j, best) ==
    IF j > Len(rows) THEN best
    ELSE MaxFrom(rows, j + 1, IF revision(rows[j]) > revision(best) THEN rows[j] ELSE best)

\* Mutant of max: the last row of the group is taken.
maxLastRow(rows) == rows[Len(rows)]

\* max(rows, key=revision): the first row of the largest revision
max(rows) == MaxFrom(rows, 2, rows[1])

RECURSIVE ProcessFrom(_, _)
ProcessFrom(data, a) ==
    IF a > Len(data) THEN <<>>
    ELSE <<max(SubSeq(data, a, GroupEnd(data, a)))>> \o ProcessFrom(data, GroupEnd(data, a) + 1)

\* generate_dump.process
process(data) == ProcessFrom(data, 1)

\* What generate_dump writes for the lines it reads.
DumpOf(lines) == LET rows == process(read_tsv(lines)) IN [j \in DOMAIN rows |-> tjoin(rows[j])]

\* A row of another type with the key and revision of one of DumpRows.
RedirectRow == "/type/redirect\t/a/1\t10\t2020-05-17T10:00:00\t{}\n"

\* Bound: rows of the cdump given to generate_dump.
MaxRows == 3

DumpInit ==
    /\ cdump \in SeqsUpTo(DumpRows \cup {RedirectRow}, MaxRows)
    /\ dump = <<>> /\ gpc = "start"
    /\ CodecIdle /\ PrintIdle /\ SortIdle /\ SplitIdle /\ MainIdle

generate_dump ==
    /\ gpc = "start"
    /\ dump' = DumpOf(cdump)
    /\ gpc' = "done"
    /\ UNCHANGED cdump
    /\ UNCHANGED <<codecVars, printVars, sortVars, splitVars, mainVars>>

DumpNext == generate_dump

SpecDump == DumpInit /\ [][DumpNext]_vars

\* The key column of a line as generate_dump reads it.
RowKey(line) == split(line, "\t")[2]

\* The revision column of a line as generate_dump reads it, as an integer.
RowRevision(line) == int(split(line, "\t")[3])

\* All lines sharing a key are next to each other in q.
RowsGrouped(q) ==
    \A a, b, c \in DOMAIN q :
        (a < b /\ b < c /\ RowKey(q[a]) = RowKey(q[c])) => RowKey(q[b]) = RowKey(q[a])

\* Where key k occurs first in q.
FirstAt(q, k) == Min({j \in DOMAIN q : RowKey(q[j]) = k})

\* out holds one line for every key of q, a line of q of that key with the
\* largest revision of the key, the keys in the order q meets them.
CollapseOf(q, out) ==
    /\ Len(out) = Cardinality({RowKey(q[j]) : j \in DOMAIN q})
    /\ \A a \in DOMAIN out :
           /\ \E j \in DOMAIN q : q[j] = out[a]
           /\ \A j \in DOMAIN q :
                  RowKey(q[j]) = RowKey(out[a]) => RowRevision(q[j]) <= RowRevision(out[a])
    /\ \A a, b \in DOMAIN out :
           a < b => FirstAt(q, RowKey(out[a])) < FirstAt(q, RowKey(out[b]))

\* C1: for an input in which the rows of a key are contiguous, generate_dump
\* writes exactly one row per key, an input row of that key whose revision
\* is the largest of the key's group, in the order the groups are met.
C1_RevisionCollapse == (gpc = "done" /\ RowsGrouped(cdump)) => CollapseOf(cdump, dump)

\* generate_dump has run on a grouped input of three rows where the largest
\* revision of a key (10) comes before a smaller one (9).
C1_Witness ==
    /\ gpc = "done" /\ RowsGrouped(cdump) /\ Len(cdump) = 3 /\ Len(dump) = 2
    /\ RowKey(cdump[1]) = RowKey(cdump[2])
    /\ RowRevision(cdump[1]) = 10 /\ RowRevision(cdump[2]) = 9

(***************************************************************************)
(* sort_dump: the emitted stream, and failures of the sort command.        *)
(***************************************************************************)

\* Row a may stand before row b in non-decreasing (key, revision) order.
KeyRevisionOrdered(a, b) ==
    \/ StrLess(KeyOf(a), KeyOf(b))
    \/ KeyOf(a) = KeyOf(b) /\ RevisionOf(a) <= RevisionOf(b)

\* C3: when every bucket sort has exited with status 0, the emitted stream
\* is key-grouped, rows of one bucket that follow each other are in
\* non-decreasing (key, revision) order, and generate_dump on the stream
\* writes exactly one row for every key of the input.
C3_SortedStream ==
    spc = "done" =>
        /\ KeyGrouped(sorted)
        /\ \A j \in 1..(Len(sorted) - 1) :
               hash[KeyOf(sorted[j])] % 256 = hash[KeyOf(sorted[j + 1])] % 256
                   => KeyRevisionOrdered(sorted[j], sorted[j + 1])
        /\ Len(DumpOf(sorted)) = Cardinality({KeyOf(dump_lines[m]) : m \in DOMAIN dump_lines})
        /\ {RowKey(DumpOf(sorted)[j]) : j \in DOMAIN DumpOf(sorted)}
               = {KeyOf(dump_lines[m]) : m \in DOMAIN dump_lines}

\* C8: a sort command runs only after the partition phase has closed the
\* bucket files; the commands run one at a time for buckets 0, 1, 2, ... in
\* this order; nothing runs after a command that returned a non-zero
\* status: sort_dump has then raised an error carrying that status, and
\* only buckets up to the failed one have been emitted.
C8_SortFailure ==
    /\ sort_log # <<>> => (closed /\ lineno = Len(dump_lines))
    /\ \A j \in DOMAIN sort_log : sort_log[j][1] = j - 1
    /\ \A j \in 1..(Len(sort_log) - 1) : sort_log[j][2] = 0
    /\ Len(sort_log) <= NumFiles
    /\ (sort_log # <<>> /\ sort_log[Len(sort_log)][2] # 0) =>
           /\ spc = "raised"
           /\ error = <<"sort failed with status", sort_log[Len(sort_log)][2]>>
           /\ \A j \in DOMAIN sorted : hash[KeyOf(sorted[j])] % 256 <= Len(sort_log) - 1
    /\ spc = "done" <=> (Len(sort_log) = NumFiles /\ sort_log[NumFiles][2] = 0)

\* The sort of a bucket that holds rows failed after the sort of a lower
\* bucket that holds rows succeeded; a bucket above both holds nothing.
C8_Witness ==
    /\ spc = "raised" /\ status # 0 /\ fname = 254
    /\ files[3] # <<>> /\ files[254] # <<>>
    /\ Len(sorted) = Len(files[3])

(***************************************************************************)
(* split_dump.                                                             *)
(***************************************************************************)

types == {"/type/edition", "/type/author", "/type/work", "/type/redirect"}

\* str.split("\t", 1): the text before the first tab and the rest, or the
\* whole string alone when it holds no tab
split1(s) ==
    LET tabs == {j \in 1..Len(s) : Chr(s, j) = "\t"}
    IN  IF tabs = {} THEN <<s>>
        ELSE <<SubSeq(s, 1, Min(tabs) - 1), SubSeq(s, Min(tabs) + 1, Len(s))>>

\* Mutant of InFiles: the redirects file is missing.
InFilesWithoutRedirects(t) == t \in {"/type/edition", "/type/author", "/type/work"}

\* type in files
InFiles(t) == t \in types

\* The lines of the dumps given to split_dump: two editions, one line of each
\* other recognized type, two of types that are not recognized, and two
\* lines that hold no tab.
SplitRows ==
    {tjoin(<<t, "/x/1", "1", "2020-05-17T10:00:00", "{}">>) \o "\n" :
        t \in types \cup {"/type/gizmo", "/type/works"}}
    \cup {"/type/edition\t/x/2\t1\t2020-05-17T10:00:00\t{}\n", "/type/edition\n", "\n"}

\* Bound: lines of the dump given to split_dump.
MaxSplitLines == 2

SplitInit ==
    /\ split_lines \in SeqsUpTo(SplitRows, MaxSplitLines)
    /\ split_n = 0
    /\ split_files = [t \in types |-> <<>>]
    /\ split_error = None /\ tpc = "loop"
    /\ CodecIdle /\ PrintIdle /\ SortIdle /\ DumpIdle /\ MainIdle

\* One iteration of split_dump's loop.
SplitDumpLine ==
    /\ tpc = "loop" /\ split_n < Len(split_lines)
    /\ LET line == split_lines[split_n + 1]
           parts == split1(line)
       IN  /\ split_n' = split_n + 1
           /\ IF Len(parts) # 2
              THEN /\ tpc' = "raised" /\ split_error' = "ValueError"
                   /\ UNCHANGED split_files
              ELSE /\ split_files' = IF InFiles(parts[1])
                                     THEN [split_files EXCEPT ![parts[1]] = Append(@, line)]
                                     ELSE split_files
                   /\ UNCHANGED <<tpc, split_error>>
    /\ UNCHANGED split_lines
    /\ UNCHANGED <<codecVars, printVars, sortVars, dumpVars, mainVars>>

\* for f in files.values(): f.close()
SplitClose ==
    /\ tpc = "loop" /\ split_n = Len(split_lines)
    /\ tpc' = "closed"
    /\ UNCHANGED <<split_lines, split_n, split_files, split_error>>
    /\ UNCHANGED <<codecVars, printVars, sortVars, dumpVars, mainVars>>

SplitNext == SplitDumpLine \/ SplitClose

SpecSplit == SplitInit /\ [][SplitNext]_vars

\* The leading field of a line: the text before its first tab.
LeadingField(line) == split(line, "\t")[1]

HasTab(line) == \E j \in 1..Len(line) : Chr(line, j) = "\t"

\* The lines read so far.
SplitRead == SubSeq(split_lines, 1, split_n)

RECURSIVE Select(_, _)
\* The lines of q whose leading field is t, in their order.
Select(q, t) ==
    IF q = <<>> THEN <<>>
    ELSE (IF LeadingField(Head(q)) = t THEN <<Head(q)>> ELSE <<>>) \o Select(Tail(q), t)

RECURSIVE SelectTabbed(_, _)
\* The lines of q that hold a tab and whose leading field is t, in their order.
SelectTabbed(q, t) ==
    IF q = <<>> THEN <<>>
    ELSE (IF HasTab(Head(q)) /\ LeadingField(Head(q)) = t THEN <<Head(q)>> ELSE <<>>)
             \o SelectTabbed(Tail(q), t)

\* C9 as claimed: every line read whose leading field is a recognized type
\* is in that type's output and in no other, in input order, a line of
\* another type is in no output, and no error is raised.
C9_SplitRouting ==
    /\ tpc # "raised"
    /\ DOMAIN split_files = types
    /\ \A t \in types : split_files[t] = Select(SplitRead, t)

\* C9 amended: every line read that holds a tab and whose leading field is
\* a recognized type is in that type's output and in no other, in input
\* order; a line that holds a tab and is of another type is in no output and
\* raises no error; a line that holds no tab raises ValueError and ends the
\* run.
C9_SplitRoutingTabbed ==
    /\ DOMAIN split_files = types
    /\ \A t \in types : split_files[t] = SelectTabbed(SplitRead, t)
    /\ tpc = "raised" <=> (split_n > 0 /\ ~HasTab(split_lines[split_n]))
    /\ tpc = "raised" => split_error = "ValueError"
    /\ \A j \in 1..(split_n - 1) : HasTab(split_lines[j])

\* split_dump has finished on two lines: one of an unrecognized type, then
\* an edition.
C9_Witness ==
    /\ tpc = "closed" /\ split_n = 2
    /\ LeadingField(split_lines[1]) = "/type/gizmo"
    /\ split_files["/type/edition"] = <<split_lines[2]>>
    /\ split_error = None

(***************************************************************************)
(* main: the command-line interface.                                       *)
(***************************************************************************)

\* The if / elif chain of main: command name, function called.
Commands ==
    << <<"cdump", "generate_cdump">>, <<"dump", "generate_dump">>,
       <<"idump", "generate_idump">>, <<"sort", "sort_dump">>,
       <<"split", "split_dump">>, <<"index", "make_index">>,
       <<"bsddb", "make_bsddb">>, <<"solrdump", "solr.generate_dump">>,
       <<"sitemaps", "generate_sitemaps">>, <<"htmlindex", "generate_html_index">> >>

\* Mutant of Dispatch: the chain ends in generate_dump instead of else.
DispatchDefaultDump(c) ==
    LET m == {j \in DOMAIN Commands : Commands[j][1] = c}
    IN  IF m = {} THEN "generate_dump" ELSE Commands[Min(m)][2]

\* The function main calls for command c, None when the chain reaches else.
Dispatch(c) ==
    LET m == {j \in DOMAIN Commands : Commands[j][1] = c}
    IN  IF m = {} THEN None ELSE Commands[Min(m)][2]

\* Command names that are no subcommand of main.
UnknownCommands == {"bogus", "Dump"}

CommandNames == {Commands[j][1] : j \in DOMAIN Commands} \cup UnknownCommands

\* The words of the command lines of the model.
Words == {"--date", "2020-05-17", "--buffer-size", "dump.txt"}

\* Bound: arguments on the command line.
MaxArgs == 2

MainInit ==
    /\ cmd \in CommandNames
    /\ argv \in SeqsUpTo(Words, MaxArgs)
    /\ iargs = argv
    /\ args = <<>> /\ kwargs = {} /\ invoked = None /\ stderr = <<>>
    /\ main_error = None /\ mpc = "parse"
    /\ CodecIdle /\ PrintIdle /\ SortIdle /\ DumpIdle /\ SplitIdle

\* One iteration of "for a in iargs": a flag takes the next argument as its
\* value, and next(iargs) raises StopIteration when there is none.
ParseArg ==
    /\ mpc = "parse" /\ iargs # <<>>
    /\ LET a == Head(iargs)
       IN  IF startswith(a, "--")
           THEN IF Len(iargs) < 2
                THEN /\ mpc' = "raised" /\ main_error' = "StopIteration"
                     /\ iargs' = <<>>
                     /\ UNCHANGED <<args, kwargs>>
                ELSE /\ kwargs' = {p \in kwargs : p[1] # replace(SubSeq(a, 3, Len(a)), "-", "_")}
                                      \cup {<<replace(SubSeq(a, 3, Len(a)), "-", "_"), iargs[2]>>}
                     /\ iargs' = SubSeq(iargs, 3, Len(iargs))
                     /\ UNCHANGED <<args, mpc, main_error>>
           ELSE /\ args' = Append(args, a)
                /\ iargs' = Tail(iargs)
                /\ UNCHANGED <<kwargs, mpc, main_error>>
    /\ UNCHANGED <<cmd, argv, invoked, stderr>>
    /\ UNCHANGED <<codecVars, printVars, sortVars, dumpVars, splitVars>>

\* The if / elif chain: the command's function is called with the collected
\* arguments, or the unknown command is reported on sys.stderr.
DispatchCommand ==
    /\ mpc = "parse" /\ iargs = <<>>
    /\ IF Dispatch(cmd) # None
       THEN /\ invoked' = Dispatch(cmd) /\ mpc' = "called"
            /\ UNCHANGED stderr
       ELSE /\ stderr' = Append(stderr, <<"Unknown command:", cmd>>)
            /\ mpc' = "returned"
            /\ UNCHANGED invoked
    /\ UNCHANGED <<cmd, argv, iargs, args, kwargs, main_error>>
    /\ UNCHANGED <<codecVars, printVars, sortVars, dumpVars, splitVars>>

MainNext == ParseArg \/ DispatchCommand

SpecMain == MainInit /\ [][MainNext]_vars

\* C10 as claimed: for a command name that is no subcommand and any argument
\* list, main raises no error and calls no component, and when it is
\* through it has reported the unknown command on sys.stderr.
C10_UnknownCommand ==
    cmd \notin {Commands[j][1] : j \in DOMAIN Commands} =>
        /\ mpc # "raised"
        /\ invoked = None
        /\ mpc # "parse" => (mpc = "returned" /\ stderr = <<<<"Unknown command:", cmd>>>>)

RECURSIVE Dangling(_)
\* The argument list q has a --name flag that no value follows (a flag takes
\* the argument after it as its value, whatever it is).
Dangling(q) ==
    IF q = <<>> THEN FALSE
    ELSE IF startswith(q[1], "--") THEN Len(q) = 1 \/ Dangling(SubSeq(q, 3, Len(q)))
    ELSE Dangling(Tail(q))

\* C10 amended: for a command name that is no subcommand, main calls no
\* component; for an argument list in which a value follows every --name
\* flag it raises no error and, when it is through, has reported the unknown
\* command on sys.stderr and returned; for an argument list with a flag that
\* no value follows it raises StopIteration and reports nothing.
C10_UnknownCommandPairedFlags ==
    cmd \notin {Commands[j][1] : j \in DOMAIN Commands} =>
        /\ invoked = None
        /\ ~Dangling(argv) =>
               /\ mpc # "raised"
               /\ mpc # "parse" => (mpc = "returned" /\ stderr = <<<<"Unknown command:", cmd>>>>)
        /\ Dangling(argv) =>
               /\ mpc \in {"parse", "raised"}
               /\ stderr = <<>>
               /\ mpc = "raised" => main_error = "StopIteration"

\* main has returned for an unknown command after collecting a flag with
\* its value, having reported the command.
C10_Witness ==
    /\ cmd = "bogus" /\ mpc = "returned" /\ argv = <<"--buffer-size", "dump.txt">>
    /\ kwargs = {<<"buffer_size", "dump.txt">>}
    /\ stderr = <<<<"Unknown command:", "bogus">>>>

====
